---- MODULE Spec2Model ----
(***************************************************************************)
(* Creator discovery: the YouTube gateway (youtube_api.py), the filters    *)
(* (filters.py), the metric calculators (metrics.py), the aggregator and   *)
(* merger (aggregation.py) and the search pipeline (pipeline.py).          *)
(*                                                                         *)
(* Python values are modelled as follows.                                  *)
(*   list            a sequence                                            *)
(*   dict            a sequence of entries in insertion order (channel     *)
(*                   maps), or a function over its key set (stats maps)    *)
(*   Optional[x]     <<>> for None, <<x>> for a value                      *)
(*   float           an exact fraction <<n, d>> in lowest terms, d > 0     *)
(*   datetime        a day number                                          *)
(*                                                                         *)
(* Left out, because nothing modelled here reads them: titles, channel     *)
(* names, descriptions, thumbnails, country, creation date, playlist ids,  *)
(* durations (avg_duration), and the log lines.  merge_channels is         *)
(* modelled twice: by the map it returns (merge_channels), and on objects  *)
(* with an identity (merge_channel_objects), which shows what its          *)
(* arguments and its result share.                                         *)
(*                                                                         *)
(* The specifications share the variables: Spec folds searches into one    *)
(* accumulated map, SpecPipeline runs search_creators against a platform   *)
(* whose requests may fail (SpecSearchFair adds that its search requests   *)
(* are answered), SpecMerge applies merge_channels to maps made by         *)
(* aggregate_channels, SpecFunctions calls the functions of the package.   *)
(***************************************************************************)
EXTENDS Integers, Sequences, FiniteSets, TLC

VARIABLES
    all_channels,   \* the accumulated channel map of a session
    searched,       \* keywords of the searches folded so far, in order
    surfaced        \* video url -> keywords whose search returned it

foldVars == <<all_channels, searched, surfaced>>

VARIABLES
    pc,               \* where search_creators stands
    args,             \* the arguments of the running search_creators call
    sc_videos,           \* search_creators: videos
    sc_video_stats,      \* search_creators: video_stats
    sc_filtered_videos,  \* search_creators: filtered_videos
    sc_channel_ids,      \* search_creators: channel_ids
    sc_channel_stats,    \* search_creators: channel_stats
    result,           \* the returned channel map, <<>> while none
    raised,           \* the exception that left search_creators, <<>> while none
    progress,         \* messages handed to on_progress, in order
    stages            \* stages executed, in order

pipeVars == <<pc, args, sc_videos, sc_video_stats, sc_filtered_videos, sc_channel_ids,
              sc_channel_stats, result, raised, progress, stages>>

VARIABLES
    all_videos,       \* search_videos: all_videos
    next_page_token,  \* search_videos: next_page_token
    gw_stats,            \* get_video_statistics / get_channel_statistics: stats
    gw_batch_start,      \* the batch loops' index i, counted from 1
    last_request,     \* the request last executed against the platform, <<>> if none
    request_failed    \* whether that request failed

gatewayVars == <<all_videos, next_page_token, gw_stats, gw_batch_start,
                 last_request, request_failed>>

VARIABLES
    operands,         \* three channel maps A, B, C handed to merge_channels
    merge_result      \* what merge_channels made of them, <<>> before it ran

mergeVars == <<operands, merge_result>>

VARIABLES
    fn_call,          \* a function of the package and the arguments it is called with
    fn_result,        \* <<>> before the call, <<value>> once it returned
    fn_objects        \* <<>>, or the objects a merge_channels call worked on

callVars == <<fn_call, fn_result, fn_objects>>

vars == <<foldVars, pipeVars, gatewayVars, mergeVars, callVars>>

(***************************************************************************)
(* Bounds of the model.                                                    *)
(***************************************************************************)
MaxSearches == 2
MaxVideos == 2
MaxOperandVideos == 2
MaxCallVideos == 3
MaxCallChannels == 3

\* config.py sets MAX_RESULTS_PER_KEYWORD = 1000 and BATCH_SIZE = 50, and
\* search_videos takes max_results = 50; the model runs them scaled down.
MAX_RESULTS_PER_KEYWORD == 3
BATCH_SIZE == 1
max_results == 2

(***************************************************************************)
(* The remote platform's catalogue: three videos on two channels.          *)
(***************************************************************************)
VideoIds == {"v1", "v2", "v3"}
ChannelIds == {"X", "Y"}
Keywords == {"a", "b"}

ChannelOf(video_id) == IF video_id = "v3" THEN "Y" ELSE "X"

RemoteViews(video_id) ==
    CASE video_id = "v1" -> 50 [] video_id = "v2" -> 500 [] OTHER -> 5000

RemoteLikes(video_id) ==
    CASE video_id = "v1" -> 1 [] video_id = "v2" -> 30 [] OTHER -> 100

RemoteComments(video_id) ==
    CASE video_id = "v1" -> 0 [] video_id = "v2" -> 2 [] OTHER -> 40

RemotePublished(video_id) ==
    CASE video_id = "v1" -> <<10>> [] video_id = "v2" -> <<40>> [] OTHER -> <<>>

RemoteSubscribers(channel_id) == IF channel_id = "X" THEN 500 ELSE 50000

RemoteVideoCount(channel_id) == IF channel_id = "X" THEN 12 ELSE 300

(***************************************************************************)
(* Helpers for sequences and fractions.                                    *)
(***************************************************************************)
Range(s) == {s[i] : i \in 1..Len(s)}

SeqsUpTo(S, n) == UNION {[1..k -> S] : k \in 0..n}

RECURSIVE Sum(_)
Sum(s) == IF s = <<>> THEN 0 ELSE Head(s) + Sum(Tail(s))

RECURSIVE Insert(_, _)
Insert(x, s) ==
    IF s = <<>> THEN <<x>>
    ELSE IF x < Head(s) THEN <<x>> \o s
    ELSE <<Head(s)>> \o Insert(x, Tail(s))

\* A list left in the order given: a median taken from it depends on the
\* order, which C18 has to tell apart.
Unsorted(s) == s

RECURSIVE Sorted(_)
Sorted(s) == IF s = <<>> THEN <<>> ELSE Insert(Head(s), Sorted(Tail(s)))

RECURSIVE Gcd(_, _)
Gcd(a, b) == IF b = 0 THEN a ELSE Gcd(b, a % b)

Frac(n, d) == LET g == Gcd(n, d) IN IF g = 0 THEN <<0, 1>> ELSE <<n \div g, d \div g>>

\* Python's round(): the nearest integer to n/d, a tie going to the even one.
RoundHalfEven(n, d) ==
    LET q == n \div d
        r == n % d
    IN  IF 2 * r < d THEN q
        ELSE IF 2 * r > d THEN q + 1
        ELSE IF q % 2 = 0 THEN q ELSE q + 1

\* The larger of two numbers: a score capped with it is not capped, which C16
\* has to tell apart.
Larger(a, b) == IF a <= b THEN b ELSE a

Min(a, b) == IF a <= b THEN a ELSE b

HasKey(rec, key) == key \in DOMAIN rec

\* dict item assignment rec[key] = value on a record
SetItem(rec, key, value) == (key :> value) @@ rec

(***************************************************************************)
(* metrics.py: the metric calculators over a channel record.               *)
(***************************************************************************)
calculate_average_views(channel_data) ==
    LET videos == channel_data.videos
    IN  IF videos = <<>> THEN <<0, 1>>
        ELSE Frac(Sum([i \in 1..Len(videos) |-> videos[i].views]), Len(videos))

calculate_median_views(channel_data) ==
    LET videos == channel_data.videos
        views == Sorted([i \in 1..Len(videos) |-> videos[i].views])
        mid == Len(views) \div 2
    IN  IF videos = <<>> THEN 0
        ELSE IF Len(views) % 2 = 0 THEN (views[mid] + views[mid + 1]) \div 2
        ELSE views[mid + 1]

calculate_median_likes(channel_data) ==
    LET videos == channel_data.videos
        likes == Sorted([i \in 1..Len(videos) |-> videos[i].likes])
        mid == Len(likes) \div 2
    IN  IF videos = <<>> THEN 0
        ELSE IF Len(likes) % 2 = 0 THEN (likes[mid] + likes[mid + 1]) \div 2
        ELSE likes[mid + 1]

calculate_median_comments(channel_data) ==
    LET videos == channel_data.videos
        comments == Sorted([i \in 1..Len(videos) |-> videos[i].comment_count])
        mid == Len(comments) \div 2
    IN  IF videos = <<>> THEN 0
        ELSE IF Len(comments) % 2 = 0 THEN (comments[mid] + comments[mid + 1]) \div 2
        ELSE comments[mid + 1]

calculate_views_to_subs_ratio(channel_data) ==
    LET median_views == IF HasKey(channel_data, "median_views")
                        THEN channel_data.median_views ELSE 0
        subscribers == channel_data.subscriber_count
    IN  IF subscribers = 0 THEN <<0, 1>>
        ELSE Frac(median_views * 100, subscribers)

\* The published dates of the videos that have one, in list order.
PublishedDates(channel_data) ==
    LET videos == channel_data.videos
        dated == SelectSeq(videos, LAMBDA v : v.published_at # <<>>)
    IN  [i \in 1..Len(dated) |-> dated[i].published_at[1]]

calculate_publish_interval(channel_data) ==
    LET asc == Sorted(PublishedDates(channel_data))
        n == Len(asc)
        dates == [i \in 1..n |-> asc[n + 1 - i]]
        intervals == [i \in 1..(n - 1) |-> dates[i] - dates[i + 1]]
    IN  IF n < 2 THEN <<>>
        ELSE <<Frac(Sum(intervals), Len(intervals))>>

get_last_published(channel_data) ==
    LET dates == Sorted(PublishedDates(channel_data))
    IN  IF dates = <<>> THEN <<>> ELSE <<dates[Len(dates)]>>

\* interval > k for an optional fraction that is present
IntervalOver(interval, k) == interval[1][1] > k * interval[1][2]

RatioUnder(ratio, k) == ratio[1] < k * ratio[2]

calculate_channel_score(channel_data) ==
    LET interval_days == channel_data.publish_interval_days
        activity_score ==
            IF interval_days = <<>> \/ IntervalOver(interval_days, 60) THEN 30
            ELSE IF IntervalOver(interval_days, 30) THEN 50
            ELSE IF IntervalOver(interval_days, 14) THEN 70
            ELSE IF IntervalOver(interval_days, 7) THEN 85
            ELSE 100
        views_to_subs == calculate_views_to_subs_ratio(channel_data)
        perf_score ==
            IF RatioUnder(views_to_subs, 2) THEN 20
            ELSE IF RatioUnder(views_to_subs, 5) THEN 40
            ELSE IF RatioUnder(views_to_subs, 10) THEN 60
            ELSE IF RatioUnder(views_to_subs, 20) THEN 80
            ELSE 100
        median_views == channel_data.median_views
        median_likes == channel_data.median_likes
        median_comments == channel_data.median_comments
        \* like_score = min(100, likes/views*100/4*100), comment_score =
        \* min(100, comments/views*100/0.5*100), both times median_views
        like_scaled == Min(100 * median_views, 2500 * median_likes)
        comment_scaled == Min(100 * median_views, 20000 * median_comments)
        \* total = 0.30 activity + 0.35 perf + 0.35 (0.7 like + 0.3 comment),
        \* times 1000 median_views
        weighted == (300 * activity_score + 350 * perf_score) * median_views
                    + 245 * like_scaled + 105 * comment_scaled
    IN  IF median_views > 0
        THEN RoundHalfEven(weighted, 1000 * median_views)
        ELSE RoundHalfEven(300 * activity_score + 350 * perf_score, 1000)

(***************************************************************************)
(* Channel maps: a dict channel_id -> record, kept in insertion order.     *)
(***************************************************************************)
Keys(channels) == {channels[i].channel_id : i \in 1..Len(channels)}

IndexOf(channels, channel_id) ==
    CHOOSE i \in 1..Len(channels) : channels[i].channel_id = channel_id

Get(channels, channel_id) == channels[IndexOf(channels, channel_id)]

Url(video_id) == "youtube.com/watch?v=" \o video_id

\* A search hit as filter_videos_by_views passes it on to the aggregator.
FilteredVideo(video_id) ==
    [video_id |-> video_id,
     channel_id |-> ChannelOf(video_id),
     views |-> RemoteViews(video_id),
     published_at |-> RemotePublished(video_id),
     likes |-> RemoteLikes(video_id),
     comment_count |-> RemoteComments(video_id)]

ChannelStats(channel_id) ==
    [subscriberCount |-> RemoteSubscribers(channel_id),
     videoCount |-> RemoteVideoCount(channel_id)]

(***************************************************************************)
(* aggregation.py: aggregate_channels.                                     *)
(***************************************************************************)
\* every keyword carried by a video of the record, the scan of line 85
CarriedKeywords(channel_data) ==
    UNION {Range(channel_data.videos[i].keywords) : i \in 1..Len(channel_data.videos)}

NewChannelEntry(channel_id, stats) ==
    [channel_id |-> channel_id,
     channel_url |-> "youtube.com/channel/" \o channel_id,
     subscriber_count |-> stats.subscriberCount,
     total_videos |-> stats.videoCount,
     videos |-> <<>>]

\* An entry that carries the keyword whatever the record holds, which C27 has
\* to tell apart.
VideoEntryTagged(video, keyword, channel_data) ==
    [url |-> Url(video.video_id),
     views |-> video.views,
     published_at |-> video.published_at,
     likes |-> video.likes,
     comment_count |-> video.comment_count,
     keywords |-> <<keyword>>]

\* the dict appended to the channel's video list, lines 77-86
VideoEntry(video, keyword, channel_data) ==
    [url |-> Url(video.video_id),
     views |-> video.views,
     published_at |-> video.published_at,
     likes |-> video.likes,
     comment_count |-> video.comment_count,
     keywords |-> IF keyword \notin CarriedKeywords(channel_data)
                  THEN <<keyword>> ELSE <<>>]

\* An aggregator that records one video per channel, which C12 has to tell apart.
RECURSIVE AggregateOnePerChannel(_, _, _, _)
AggregateOnePerChannel(videos, channel_stats, keyword, channels) ==
    IF videos = <<>> THEN channels
    ELSE
        LET video == Head(videos)
            channel_id == video.channel_id
        IN  IF channel_id \notin DOMAIN channel_stats \/ channel_id \in Keys(channels)
            THEN AggregateOnePerChannel(Tail(videos), channel_stats, keyword, channels)
            ELSE
                LET created == Append(channels,
                                      NewChannelEntry(channel_id, channel_stats[channel_id]))
                    entry == VideoEntry(video, keyword, created[Len(created)])
                IN  AggregateOnePerChannel(Tail(videos), channel_stats, keyword,
                        [created EXCEPT ![Len(created)].videos = Append(@, entry)])

\* the first loop of aggregate_channels, lines 42-86
RECURSIVE AggregateVideos(_, _, _, _)
AggregateVideos(videos, channel_stats, keyword, channels) ==
    IF videos = <<>> THEN channels
    ELSE
        LET video == Head(videos)
            channel_id == video.channel_id
        IN  IF channel_id \notin DOMAIN channel_stats
            THEN AggregateVideos(Tail(videos), channel_stats, keyword, channels)
            ELSE
                LET created ==
                        IF channel_id \notin Keys(channels)
                        THEN Append(channels,
                                    NewChannelEntry(channel_id, channel_stats[channel_id]))
                        ELSE channels
                    i == IndexOf(created, channel_id)
                    entry == VideoEntry(video, keyword, created[i])
                IN  AggregateVideos(Tail(videos), channel_stats, keyword,
                        [created EXCEPT ![i].videos = Append(@, entry)])

\* the second loop of aggregate_channels, lines 89-99, on one record
DeriveMetrics(channel_data) ==
    LET c1 == SetItem(channel_data, "median_views", calculate_median_views(channel_data))
        c2 == SetItem(c1, "average_views", calculate_average_views(c1))
        c3 == SetItem(c2, "publish_interval_days", calculate_publish_interval(c2))
        c4 == SetItem(c3, "last_published", get_last_published(c3))
        c5 == SetItem(c4, "median_likes", calculate_median_likes(c4))
        c6 == SetItem(c5, "median_comments", calculate_median_comments(c5))
        c7 == SetItem(c6, "views_to_subs_ratio", calculate_views_to_subs_ratio(c6))
    IN  SetItem(c7, "channel_score", calculate_channel_score(c7))

aggregate_channels(videos, channel_stats, keyword) ==
    LET channels == AggregateVideos(videos, channel_stats, keyword, <<>>)
    IN  [i \in 1..Len(channels) |-> DeriveMetrics(channels[i])]

(***************************************************************************)
(* aggregation.py: merge_channels.                                         *)
(***************************************************************************)
Urls(videos) == {videos[i].url : i \in 1..Len(videos)}

\* A keyword union that stops after the first keyword of new_video: a merge
\* built on it depends on the grouping, which C10 has to tell apart.
AddFirstKeyword(keywords, new_keywords) ==
    IF new_keywords = <<>> \/ Head(new_keywords) \in Range(keywords) THEN keywords
    ELSE Append(keywords, Head(new_keywords))

\* lines 130-132: the keywords of new_video not yet in existing_video, appended
RECURSIVE AddKeywords(_, _)
AddKeywords(keywords, new_keywords) ==
    IF new_keywords = <<>> THEN keywords
    ELSE AddKeywords(IF Head(new_keywords) \notin Range(keywords)
                     THEN Append(keywords, Head(new_keywords)) ELSE keywords,
                     Tail(new_keywords))

\* A tagging that replaces the keywords of an existing video by the incoming
\* video's, which C23 has to tell apart.
TagLatest(videos, new_video) ==
    [i \in 1..Len(videos) |->
        IF videos[i].url = new_video.url
        THEN [videos[i] EXCEPT !.keywords = new_video.keywords]
        ELSE videos[i]]

\* lines 128-132: every existing video with new_video's url takes its keywords
TagExisting(videos, new_video) ==
    [i \in 1..Len(videos) |->
        IF videos[i].url = new_video.url
        THEN [videos[i] EXCEPT !.keywords = AddKeywords(@, new_video.keywords)]
        ELSE videos[i]]

\* A video loop that looks a url up in the list as it grows, so that no url is
\* appended twice, which C22 has to tell apart.
RECURSIVE MergeVideosOnce(_, _, _)
MergeVideosOnce(videos, new_videos, existing_videos_ids) ==
    IF new_videos = <<>> THEN videos
    ELSE
        LET new_video == Head(new_videos)
        IN  MergeVideosOnce(IF new_video.url \notin Urls(videos)
                            THEN Append(videos, new_video)
                            ELSE TagExisting(videos, new_video),
                            Tail(new_videos), existing_videos_ids)

\* lines 122-132; existing_videos_ids is the set taken at line 120, before the loop
RECURSIVE MergeVideos(_, _, _)
MergeVideos(videos, new_videos, existing_videos_ids) ==
    IF new_videos = <<>> THEN videos
    ELSE
        LET new_video == Head(new_videos)
        IN  MergeVideos(IF new_video.url \notin existing_videos_ids
                        THEN Append(videos, new_video)
                        ELSE TagExisting(videos, new_video),
                        Tail(new_videos), existing_videos_ids)

\* A merge that takes the incoming record's statistics and metrics for a channel
\* it already holds, which C28 has to tell apart.
MergeChannelLatest(merged, new_data) ==
    IF new_data.channel_id \in Keys(merged)
    THEN LET i == IndexOf(merged, new_data.channel_id)
         IN  [merged EXCEPT ![i] =
                 [new_data EXCEPT !.videos =
                     MergeVideos(merged[i].videos, new_data.videos, Urls(merged[i].videos))]]
    ELSE Append(merged, new_data)

\* lines 117-135, one incoming channel
MergeChannel(merged, new_data) ==
    IF new_data.channel_id \in Keys(merged)
    THEN LET i == IndexOf(merged, new_data.channel_id)
         IN  [merged EXCEPT ![i].videos =
                 MergeVideos(@, new_data.videos, Urls(merged[i].videos))]
    ELSE Append(merged, new_data)

RECURSIVE MergeLoop(_, _)
MergeLoop(merged, new_channels) ==
    IF new_channels = <<>> THEN merged
    ELSE MergeLoop(MergeChannel(merged, Head(new_channels)), Tail(new_channels))

merge_channels(existing_channels, new_channels) ==
    MergeLoop(existing_channels, new_channels)

(***************************************************************************)
(* aggregation.py: merge_channels on Python objects. A channel record and  *)
(* a video entry are objects with an identity: heap[a] is the content of   *)
(* the object at address a. A record holds the addresses of its videos;    *)
(* its 'videos' list is reached through the record only and a video's      *)
(* 'keywords' list through the video only, so each list is kept with its   *)
(* owner. A channel map is the sequence of the addresses of its records;   *)
(* existing_channels.copy() at line 115 is a new map of the same records.  *)
(***************************************************************************)
\* the video entries as new objects: their addresses and the heap holding them
RECURSIVE StoreVideos(_, _)
StoreVideos(videos, heap) ==
    IF videos = <<>> THEN [refs |-> <<>>, heap |-> heap]
    ELSE LET rest == StoreVideos(Tail(videos), Append(heap, Head(videos)))
         IN  [refs |-> <<Len(heap) + 1>> \o rest.refs, heap |-> rest.heap]

\* the channel map as new objects
RECURSIVE StoreChannels(_, _)
StoreChannels(channels, heap) ==
    IF channels = <<>> THEN [refs |-> <<>>, heap |-> heap]
    ELSE LET stored == StoreVideos(Head(channels).videos, heap)
             record == [Head(channels) EXCEPT !.videos = stored.refs]
             rest == StoreChannels(Tail(channels), Append(stored.heap, record))
         IN  [refs |-> <<Len(stored.heap) + 1>> \o rest.refs, heap |-> rest.heap]

\* the content of the channel map whose records are at refs
Load(refs, heap) ==
    [i \in 1..Len(refs) |->
        [heap[refs[i]] EXCEPT !.videos = [k \in 1..Len(@) |-> heap[@[k]]]]]

\* lines 128-132: every video of the record with the new video's url has the
\* new video's keywords appended to its own keyword list
RECURSIVE TagObjects(_, _, _)
TagObjects(heap, video_refs, new_ref) ==
    IF video_refs = <<>> THEN heap
    ELSE LET ref == Head(video_refs)
         IN  TagObjects(IF heap[ref].url = heap[new_ref].url
                        THEN [heap EXCEPT ![ref].keywords =
                                 AddKeywords(@, heap[new_ref].keywords)]
                        ELSE heap,
                        Tail(video_refs), new_ref)

\* lines 122-132: a new video is appended, the object itself, to the list of the
\* record merged[channel_id], which is the record of existing_channels
RECURSIVE MergeVideoObjects(_, _, _, _)
MergeVideoObjects(heap, record_ref, new_refs, existing_videos_ids) ==
    IF new_refs = <<>> THEN heap
    ELSE LET new_ref == Head(new_refs)
         IN  MergeVideoObjects(
                 IF heap[new_ref].url \notin existing_videos_ids
                 THEN [heap EXCEPT ![record_ref].videos = Append(@, new_ref)]
                 ELSE TagObjects(heap, heap[record_ref].videos, new_ref),
                 record_ref, Tail(new_refs), existing_videos_ids)

\* lines 117-135, one incoming channel; line 135 puts the incoming record itself
\* into the merged map
MergeChannelObject(merged, heap, new_ref) ==
    LET held == {i \in 1..Len(merged) : heap[merged[i]].channel_id = heap[new_ref].channel_id}
    IN  IF held # {}
        THEN LET record_ref == merged[CHOOSE i \in held : TRUE]
                 listed == heap[record_ref].videos
             IN  [refs |-> merged,
                  heap |-> MergeVideoObjects(heap, record_ref, heap[new_ref].videos,
                               {heap[listed[k]].url : k \in 1..Len(listed)})]
        ELSE [refs |-> Append(merged, new_ref), heap |-> heap]

RECURSIVE MergeObjectsLoop(_, _, _)
MergeObjectsLoop(merged, heap, new_refs) ==
    IF new_refs = <<>> THEN [refs |-> merged, heap |-> heap]
    ELSE LET step == MergeChannelObject(merged, heap, Head(new_refs))
         IN  MergeObjectsLoop(step.refs, step.heap, Tail(new_refs))

merge_channel_objects(existing_refs, new_refs, heap) ==
    MergeObjectsLoop(existing_refs, heap, new_refs)

(***************************************************************************)
(* aggregation.py: write_channels_to_jsonl. The file is the sequence of    *)
(* lines written; a line is the row json.dumps was given. json.dumps       *)
(* raises TypeError on a datetime, which is what a video's published_at    *)
(* holds when the platform gave a publish date (youtube_api.py line 132);  *)
(* the function catches IOError only.                                      *)
(***************************************************************************)
\* round(avg_views, 1), in tenths
RoundToTenths(avg_views) == Frac(RoundHalfEven(avg_views[1] * 10, avg_views[2]), 10)

JsonSerializable(video) == video.published_at = <<>>

output_row(channel_data) ==
    [channel_id |-> channel_data.channel_id,
     channel_url |-> channel_data.channel_url,
     subscriber_count |-> channel_data.subscriber_count,
     total_videos |-> channel_data.total_videos,
     average_views |-> RoundToTenths(calculate_average_views(channel_data)),
     videos |-> channel_data.videos]

\* lines 150-166: the rows written before the loop ends or json.dumps raises
RECURSIVE WriteRows(_, _)
WriteRows(channels, lines) ==
    IF channels = <<>> THEN [lines |-> lines, raised |-> <<>>]
    ELSE IF \A i \in 1..Len(Head(channels).videos) :
                JsonSerializable(Head(channels).videos[i])
         THEN WriteRows(Tail(channels), Append(lines, output_row(Head(channels))))
         ELSE [lines |-> lines, raised |-> <<"TypeError">>]

write_channels_to_jsonl(channels) == WriteRows(channels, <<>>)

(***************************************************************************)
(* filters.py.                                                             *)
(***************************************************************************)
\* A view filter that excludes both limits, which C11 has to tell apart.
RECURSIVE filter_videos_inside(_, _, _, _)
filter_videos_inside(videos, stats, min_views, max_views) ==
    IF videos = <<>> THEN <<>>
    ELSE
        LET video == Head(videos)
            rest == filter_videos_inside(Tail(videos), stats, min_views, max_views)
        IN  IF video.video_id \notin DOMAIN stats THEN rest
            ELSE
                LET video_stats == stats[video.video_id]
                IN  IF min_views < video_stats.viewCount /\ video_stats.viewCount < max_views
                    THEN <<[video_id |-> video.video_id,
                            channel_id |-> video.channel_id,
                            views |-> video_stats.viewCount,
                            published_at |-> video_stats.publishedAt,
                            likes |-> video_stats.likeCount,
                            comment_count |-> video_stats.commentCount]>> \o rest
                    ELSE rest

\* A view filter without the upper limit, which C4 has to tell apart.
RECURSIVE filter_videos_above(_, _, _, _)
filter_videos_above(videos, stats, min_views, max_views) ==
    IF videos = <<>> THEN <<>>
    ELSE
        LET video == Head(videos)
            rest == filter_videos_above(Tail(videos), stats, min_views, max_views)
        IN  IF video.video_id \notin DOMAIN stats THEN rest
            ELSE
                LET video_stats == stats[video.video_id]
                IN  IF min_views <= video_stats.viewCount
                    THEN <<[video_id |-> video.video_id,
                            channel_id |-> video.channel_id,
                            views |-> video_stats.viewCount,
                            published_at |-> video_stats.publishedAt,
                            likes |-> video_stats.likeCount,
                            comment_count |-> video_stats.commentCount]>> \o rest
                    ELSE rest

RECURSIVE filter_videos_by_views(_, _, _, _)
filter_videos_by_views(videos, stats, min_views, max_views) ==
    IF videos = <<>> THEN <<>>
    ELSE
        LET video == Head(videos)
            rest == filter_videos_by_views(Tail(videos), stats, min_views, max_views)
        IN  IF video.video_id \notin DOMAIN stats THEN rest
            ELSE
                LET video_stats == stats[video.video_id]
                    view_count == video_stats.viewCount
                IN  IF min_views <= view_count /\ view_count <= max_views
                    THEN <<[video_id |-> video.video_id,
                            channel_id |-> video.channel_id,
                            views |-> view_count,
                            published_at |-> video_stats.publishedAt,
                            likes |-> video_stats.likeCount,
                            comment_count |-> video_stats.commentCount]>> \o rest
                    ELSE rest

\* A subscriber filter that passes every channel with a stats entry, which C29
\* has to tell apart.
filter_channels_listed(channel_ids, stats, min_subscribers, max_subscribers) ==
    SelectSeq(channel_ids, LAMBDA channel_id : channel_id \in DOMAIN stats)

\* A subscriber filter with an open range, which C21 has to tell apart.
RECURSIVE filter_channels_inside(_, _, _, _)
filter_channels_inside(channel_ids, stats, min_subscribers, max_subscribers) ==
    IF channel_ids = <<>> THEN <<>>
    ELSE
        LET channel_id == Head(channel_ids)
            rest == filter_channels_inside(Tail(channel_ids), stats,
                                           min_subscribers, max_subscribers)
        IN  IF channel_id \notin DOMAIN stats THEN rest
            ELSE IF /\ min_subscribers < stats[channel_id].subscriberCount
                    /\ stats[channel_id].subscriberCount < max_subscribers
                 THEN <<channel_id>> \o rest
                 ELSE rest

RECURSIVE filter_channels_by_video_count(_, _, _, _)
filter_channels_by_video_count(channel_ids, stats, min_videos, max_videos) ==
    IF channel_ids = <<>> THEN <<>>
    ELSE
        LET channel_id == Head(channel_ids)
            rest == filter_channels_by_video_count(Tail(channel_ids), stats,
                                                   min_videos, max_videos)
        IN  IF channel_id \notin DOMAIN stats THEN rest
            ELSE IF /\ min_videos <= stats[channel_id].videoCount
                    /\ stats[channel_id].videoCount <= max_videos
                 THEN <<channel_id>> \o rest
                 ELSE rest

RECURSIVE filter_channels_by_subscribers(_, _, _, _)
filter_channels_by_subscribers(channel_ids, stats, min_subscribers, max_subscribers) ==
    IF channel_ids = <<>> THEN <<>>
    ELSE
        LET channel_id == Head(channel_ids)
            rest == filter_channels_by_subscribers(Tail(channel_ids), stats,
                                                   min_subscribers, max_subscribers)
        IN  IF channel_id \notin DOMAIN stats THEN rest
            ELSE IF /\ min_subscribers <= stats[channel_id].subscriberCount
                    /\ stats[channel_id].subscriberCount <= max_subscribers
                 THEN <<channel_id>> \o rest
                 ELSE rest

\* An activity filter that drops a record published exactly at the cutoff,
\* which C20 has to tell apart.
filter_channels_after(channels, max_days_since_publish, now) ==
    SelectSeq(channels, LAMBDA data :
        /\ data.last_published # <<>>
        /\ data.last_published[1] > now - max_days_since_publish)

\* cutoff = now - max_days_since_publish; a record without a date is dropped
filter_channels_by_activity(channels, max_days_since_publish, now) ==
    SelectSeq(channels, LAMBDA data :
        /\ data.last_published # <<>>
        /\ data.last_published[1] >= now - max_days_since_publish)

(***************************************************************************)
(* metrics.py: format_publish_interval, on an optional fraction of days.   *)
(***************************************************************************)
IntervalUnder(days, k) == days[1][1] < k * days[1][2]

format_publish_interval(days) ==
    IF days = <<>> THEN "N/A"
    ELSE IF IntervalUnder(days, 1) THEN "Multiple per day"
    ELSE IF IntervalUnder(days, 2) THEN "Daily"
    ELSE IF IntervalUnder(days, 4) THEN "Every few days"
    ELSE IF IntervalUnder(days, 8) THEN "Weekly"
    ELSE IF IntervalUnder(days, 15) THEN "Every 2 weeks"
    ELSE IF IntervalUnder(days, 22) THEN "Every 3 weeks"
    ELSE IF IntervalUnder(days, 45) THEN "Monthly"
    ELSE IF IntervalUnder(days, 75) THEN "Every 2 months"
    ELSE "Infrequent"

(***************************************************************************)
(* sorting.py: sort_channels. sorted() is stable, with reverse=True too:   *)
(* records with equal keys keep the order they came in.                    *)
(***************************************************************************)
SortOption == [RELEVANCE |-> "relevance", MEDIAN_VIEWS |-> "median_views",
               SUBSCRIBERS |-> "subscribers", ACTIVITY |-> "activity"]

\* key_funcs and activity_key; datetime.min is a day before every day number
SortKey(sort_by, c) ==
    IF sort_by = SortOption.MEDIAN_VIEWS THEN c.median_views
    ELSE IF sort_by = SortOption.SUBSCRIBERS THEN c.subscriber_count
    ELSE IF c.last_published = <<>> THEN 0 - 1
    ELSE c.last_published[1]

\* An order that also puts c ahead of a d with an equal key: the sort built on
\* it reverses ties, which C19 has to tell apart.
AheadOrLevel(sort_by, descending, c, d) ==
    IF descending THEN SortKey(sort_by, c) >= SortKey(sort_by, d)
    ELSE SortKey(sort_by, c) <= SortKey(sort_by, d)

\* c goes strictly ahead of d in the sorted list
Ahead(sort_by, descending, c, d) ==
    IF descending THEN SortKey(sort_by, c) > SortKey(sort_by, d)
    ELSE SortKey(sort_by, c) < SortKey(sort_by, d)

RECURSIVE InsertChannel(_, _, _, _)
InsertChannel(c, channel_list, sort_by, descending) ==
    IF channel_list = <<>> THEN <<c>>
    ELSE IF Ahead(sort_by, descending, c, Head(channel_list)) THEN <<c>> \o channel_list
    ELSE <<Head(channel_list)>> \o InsertChannel(c, Tail(channel_list), sort_by, descending)

\* sorted(channel_list, key=key_func, reverse=descending)
RECURSIVE SortedChannels(_, _, _)
SortedChannels(channel_list, sort_by, descending) ==
    IF channel_list = <<>> THEN <<>>
    ELSE InsertChannel(channel_list[Len(channel_list)],
                       SortedChannels(SubSeq(channel_list, 1, Len(channel_list) - 1),
                                      sort_by, descending),
                       sort_by, descending)

sort_channels(channels, sort_by, descending) ==
    IF sort_by \notin {SortOption.MEDIAN_VIEWS, SortOption.SUBSCRIBERS, SortOption.ACTIVITY}
    THEN channels
    ELSE SortedChannels(channels, sort_by, descending)

(***************************************************************************)
(* The platform as the gateway sees it. A request is answered or fails;    *)
(* googleapiclient raises HttpError for a rejected request (quota          *)
(* exceeded, not found) and lets a transport failure through as it is.     *)
(***************************************************************************)
RemoteFailures == {"quotaExceeded", "notFound", "network"}

IsHttpError(failure) == failure \in {"quotaExceeded", "notFound"}

ExceptionOf(failure) ==
    [type |-> IF IsHttpError(failure) THEN "HttpError" ELSE "TransportError",
     reason |-> failure]

SearchError(reason) == [type |-> "SearchError", reason |-> reason]

SearchItem(video_id) == [video_id |-> video_id, channel_id |-> ChannelOf(video_id)]

\* the stats entry get_video_statistics builds from a videos.list item
VideoStatsEntry(video_id) ==
    [viewCount |-> RemoteViews(video_id),
     publishedAt |-> RemotePublished(video_id),
     likeCount |-> RemoteLikes(video_id),
     commentCount |-> RemoteComments(video_id)]

Request(op, ids, size, token) ==
    [op |-> op, ids |-> ids, maxResults |-> size, pageToken |-> token]

Batch(ids, start) == SubSeq(ids, start, Min(start + BATCH_SIZE - 1, Len(ids)))

Message(msg, n) == [msg |-> msg, n |-> n]

\* a stage of search_creators that ran, and the number of progress messages
\* delivered before it ran
StageRun(stage, messages) == [stage |-> stage, after |-> messages]

\* list(set(...)): the members of S in an order the code does not fix
Orderings(S) == {p \in [1..Cardinality(S) -> S] : Range(p) = S}

ViewRanges == {<<100, 1000>>, <<0, 10000000>>}
SubscriberRanges == {<<100, 10000>>, <<1000, 10000>>, <<0, 100000000>>}
ActivityDays == {<<>>, <<30>>}
NowDays == {60}

(***************************************************************************)
(* pipeline.py: search_creators, one action per request to the platform.   *)
(* The code between two requests runs with the action of the first.        *)
(***************************************************************************)
PipeIdle ==
    /\ pc = "start"
    /\ sc_videos = <<>>
    /\ sc_video_stats = <<>>
    /\ sc_filtered_videos = <<>>
    /\ sc_channel_ids = <<>>
    /\ sc_channel_stats = <<>>
    /\ result = <<>>
    /\ raised = <<>>
    /\ progress = <<>>
    /\ stages = <<>>
    /\ all_videos = <<>>
    /\ next_page_token = <<>>
    /\ gw_stats = <<>>
    /\ gw_batch_start = 1
    /\ last_request = <<>>
    /\ request_failed = FALSE

\* an exception leaves search_creators
Raise(exception) ==
    /\ pc' = "raised"
    /\ raised' = <<exception>>
    /\ result' = result

\* lines 57-58 and search_videos lines 52-56
Start ==
    /\ pc = "start"
    /\ pc' = "search_videos"
    /\ progress' = Append(progress, Message("Searching for videos...", 0))
    /\ stages' = Append(stages, StageRun("Search", Len(progress')))
    /\ all_videos' = <<>>
    /\ next_page_token' = <<>>
    /\ UNCHANGED <<args, sc_videos, sc_video_stats, sc_filtered_videos, sc_channel_ids,
                   sc_channel_stats, result, raised, gw_stats, gw_batch_start,
                   last_request, request_failed, foldVars, mergeVars, callVars>>

\* A pipeline that goes on to the video statistics whatever the search
\* returned, which C5 has to tell apart.
ContinueAfterSearch(returned) ==
    /\ sc_videos' = returned
    /\ pc' = "get_video_statistics"
    /\ progress' = progress \o
           <<Message("Found videos", Len(returned)),
             Message("Fetching video statistics...", 0)>>
    /\ stages' = Append(stages, StageRun("FetchVideoStats", Len(progress')))
    /\ gw_stats' = <<>>
    /\ gw_batch_start' = 1
    /\ UNCHANGED <<result, raised>>
    /\ UNCHANGED <<args, sc_video_stats, sc_filtered_videos, sc_channel_ids, sc_channel_stats, foldVars, mergeVars, callVars>>

\* search_videos returned: lines 59-66 and get_video_statistics lines 105-108
ReturnFromSearch(returned) ==
    /\ sc_videos' = returned
    /\ IF returned = <<>>
       THEN /\ Raise(SearchError("No videos found"))
            /\ UNCHANGED <<progress, stages, gw_stats, gw_batch_start>>
       ELSE /\ pc' = "get_video_statistics"
            /\ progress' = progress \o
                   <<Message("Found videos", Len(returned)),
                     Message("Fetching video statistics...", 0)>>
            /\ stages' = Append(stages, StageRun("FetchVideoStats", Len(progress')))
            /\ gw_stats' = <<>>
            /\ gw_batch_start' = 1
            /\ UNCHANGED <<result, raised>>
    /\ UNCHANGED <<args, sc_video_stats, sc_filtered_videos, sc_channel_ids, sc_channel_stats, foldVars, mergeVars, callVars>>

\* A request that asks for a full page whatever has been collected, which C24
\* has to tell apart.
SearchRequestFullPage == Request("search", <<>>, max_results, next_page_token)

SearchRequest ==
    Request("search", <<>>,
            Min(max_results, MAX_RESULTS_PER_KEYWORD - Len(all_videos)),
            next_page_token)

\* the items of a response appended under the guard of lines 72-73
Collect(collected, items) ==
    SubSeq(collected \o items, 1, Min(Len(collected \o items), MAX_RESULTS_PER_KEYWORD))

\* one pass of the loop of lines 59-86 whose request is answered with a page:
\* its video ids and its next-page token. The token is a local of search_videos:
\* it is kept for the next pass and gone when the call ends.
SearchPage(page) ==
    /\ pc = "search_videos"
    /\ Len(page[1]) <= SearchRequest.maxResults
    /\ last_request' = <<SearchRequest>>
    /\ request_failed' = FALSE
    /\ all_videos' = Collect(all_videos, [i \in 1..Len(page[1]) |-> SearchItem(page[1][i])])
    /\ IF page[2] # <<>> /\ Len(all_videos') < MAX_RESULTS_PER_KEYWORD
       THEN /\ next_page_token' = page[2]
            /\ UNCHANGED <<pipeVars, gw_stats, gw_batch_start, foldVars, mergeVars, callVars>>
       ELSE /\ next_page_token' = <<>>
            /\ ReturnFromSearch(all_videos')

\* one pass of the loop whose request fails: lines 91-93, or the exception leaves
SearchPageFails(failure) ==
    /\ pc = "search_videos"
    /\ last_request' = <<SearchRequest>>
    /\ request_failed' = TRUE
    /\ next_page_token' = <<>>
    /\ UNCHANGED all_videos
    /\ IF IsHttpError(failure)
       THEN ReturnFromSearch(<<>>)
       ELSE /\ Raise(ExceptionOf(failure))
            /\ UNCHANGED <<args, sc_videos, sc_video_stats, sc_filtered_videos, sc_channel_ids,
                           sc_channel_stats, progress, stages, gw_stats, gw_batch_start,
                           foldVars, mergeVars, callVars>>
VideoIdsOf(vs) == [i \in 1..Len(vs) |-> vs[i].video_id]

ChannelIdsOf(vs) == {vs[i].channel_id : i \in 1..Len(vs)}

\* get_video_statistics returned: lines 68-78 and get_channel_statistics 166-169
ReturnFromVideoStats(returned) ==
    LET filtered == filter_videos_by_views(sc_videos, returned, args.view_range[1],
                                           args.view_range[2])
    IN  /\ sc_video_stats' = returned
        /\ sc_filtered_videos' = filtered
        /\ IF filtered = <<>>
           THEN /\ Raise(SearchError("No videos found with views in range"))
                /\ progress' = Append(progress, Message("Filtering by view count...", 0))
                /\ stages' = Append(stages, StageRun("FilterByViews", Len(progress')))
                /\ UNCHANGED <<sc_channel_ids, gw_stats, gw_batch_start>>
           ELSE /\ pc' = "get_channel_statistics"
                /\ progress' = progress \o
                       <<Message("Filtering by view count...", 0),
                         Message("videos match view criteria", Len(filtered)),
                         Message("Fetching channel statistics...", 0)>>
                /\ stages' = stages \o <<StageRun("FilterByViews", Len(progress) + 1),
                                          StageRun("FetchChannelStats", Len(progress'))>>
                /\ sc_channel_ids' \in Orderings(ChannelIdsOf(filtered))
                /\ gw_stats' = <<>>
                /\ gw_batch_start' = 1
                /\ UNCHANGED <<result, raised>>
        /\ UNCHANGED <<args, sc_videos, sc_channel_stats, foldVars, mergeVars, callVars>>

VideoStatsRequest == Request("videos", Batch(VideoIdsOf(sc_videos), gw_batch_start), 0, <<>>)

\* one pass of the loop of lines 112-147 whose request is answered
VideoStatsBatch ==
    /\ pc = "get_video_statistics"
    /\ last_request' = <<VideoStatsRequest>>
    /\ request_failed' = FALSE
    /\ UNCHANGED <<all_videos, next_page_token>>
    /\ LET batch == VideoStatsRequest.ids
           answered == [v \in Range(batch) |-> VideoStatsEntry(v)] @@ gw_stats
       IN  IF gw_batch_start + BATCH_SIZE <= Len(sc_videos)
           THEN /\ gw_stats' = answered
                /\ gw_batch_start' = gw_batch_start + BATCH_SIZE
                /\ UNCHANGED <<pipeVars, foldVars, mergeVars, callVars>>
           ELSE ReturnFromVideoStats(answered)

\* one pass whose request fails: lines 151-153, or the exception leaves
VideoStatsBatchFails(failure) ==
    /\ pc = "get_video_statistics"
    /\ last_request' = <<VideoStatsRequest>>
    /\ request_failed' = TRUE
    /\ UNCHANGED <<all_videos, next_page_token>>
    /\ IF IsHttpError(failure)
       THEN ReturnFromVideoStats(gw_stats)
       ELSE /\ Raise(ExceptionOf(failure))
            /\ UNCHANGED <<args, sc_videos, sc_video_stats, sc_filtered_videos, sc_channel_ids,
                           sc_channel_stats, progress, stages, gw_stats, gw_batch_start,
                           foldVars, mergeVars, callVars>>

\* lines 89-99 of search_creators, on the channels that passed
Finish(kept, returned, now) ==
    \* each local is bound once, as the code assigns it once
    \E merged \in {merge_channels(<<>>, aggregate_channels(kept, returned, args.keyword))} :
    \E active \in {IF args.activity_days # <<>>
                   THEN filter_channels_by_activity(merged, args.activity_days[1], now)
                   ELSE merged} :
        /\ pc' = "returned"
        /\ result' = <<active>>
        /\ raised' = raised
        /\ stages' = stages \o <<StageRun("FilterBySubscribers", Len(progress) + 1),
                                  StageRun("Aggregate", Len(progress) + 2),
                                  StageRun("Merge", Len(progress) + 2)>> \o
                     (IF args.activity_days # <<>>
                      THEN <<StageRun("FilterByActivity", Len(progress) + 3)>> ELSE <<>>)
        /\ progress' = progress \o
               <<Message("Filtering by subscribers...", 0),
                 Message("Aggregating results...", 0)>> \o
               (IF args.activity_days # <<>>
                THEN <<Message("Filtering by activity...", args.activity_days[1])>>
                ELSE <<>>) \o
               <<Message("Found creators", Len(active))>>

\* get_channel_statistics returned: lines 80-101
ReturnFromChannelStats(returned) ==
    LET valid_channel_ids ==
            filter_channels_by_subscribers(sc_channel_ids, returned,
                args.subscriber_range[1], args.subscriber_range[2])
        kept == SelectSeq(sc_filtered_videos,
                          LAMBDA v : v.channel_id \in Range(valid_channel_ids))
    IN  /\ sc_channel_stats' = returned
        /\ sc_filtered_videos' = kept
        /\ IF kept = <<>>
           THEN /\ Raise(SearchError("No channels match subscriber criteria"))
                /\ progress' = Append(progress, Message("Filtering by subscribers...", 0))
                /\ stages' = Append(stages, StageRun("FilterBySubscribers", Len(progress')))
           ELSE \E now \in NowDays : Finish(kept, returned, now)
        /\ UNCHANGED <<args, sc_videos, sc_video_stats, sc_channel_ids, gw_stats, gw_batch_start,
                       foldVars, mergeVars, callVars>>

ChannelStatsRequest == Request("channels", Batch(sc_channel_ids, gw_batch_start), 0, <<>>)

\* one pass of the loop of lines 173-201 whose request is answered
ChannelStatsBatch ==
    /\ pc = "get_channel_statistics"
    /\ last_request' = <<ChannelStatsRequest>>
    /\ request_failed' = FALSE
    /\ UNCHANGED <<all_videos, next_page_token>>
    /\ LET batch == ChannelStatsRequest.ids
           answered == [c \in Range(batch) |-> ChannelStats(c)] @@ gw_stats
       IN  IF gw_batch_start + BATCH_SIZE <= Len(sc_channel_ids)
           THEN /\ gw_stats' = answered
                /\ gw_batch_start' = gw_batch_start + BATCH_SIZE
                /\ UNCHANGED <<pipeVars, foldVars, mergeVars, callVars>>
           ELSE ReturnFromChannelStats(answered)

\* one pass whose request fails: lines 205-207, or the exception leaves
ChannelStatsBatchFails(failure) ==
    /\ pc = "get_channel_statistics"
    /\ last_request' = <<ChannelStatsRequest>>
    /\ request_failed' = TRUE
    /\ UNCHANGED <<all_videos, next_page_token>>
    /\ IF IsHttpError(failure)
       THEN ReturnFromChannelStats(gw_stats)
       ELSE /\ Raise(ExceptionOf(failure))
            /\ UNCHANGED <<args, sc_videos, sc_video_stats, sc_filtered_videos, sc_channel_ids,
                           sc_channel_stats, progress, stages, gw_stats, gw_batch_start,
                           foldVars, mergeVars, callVars>>

PipeArgs ==
    [keyword : {"test"}, view_range : ViewRanges,
     subscriber_range : SubscriberRanges, activity_days : ActivityDays]

FoldIdle ==
    /\ all_channels = <<>>
    /\ searched = <<>>
    /\ surfaced = [v \in VideoIds |-> {}]

MergeIdle ==
    /\ operands = <<>>
    /\ merge_result = <<>>

CallIdle ==
    /\ fn_call = <<>>
    /\ fn_result = <<>>
    /\ fn_objects = <<>>

PipeInit ==
    /\ args \in PipeArgs
    /\ PipeIdle
    /\ FoldIdle
    /\ MergeIdle
    /\ CallIdle

\* a page of a search response: its items and its nextPageToken, absent on the
\* last page. The platform names the page that follows by a token of its own
\* choice; two tokens tell a further page from the one just asked for.
PageTokens == {<<>>, <<"page2">>, <<"page3">>}

Pages == {<<items, token>> : items \in SeqsUpTo(VideoIds, max_results),
                             token \in PageTokens}

PipeNext ==
    \/ Start
    \/ \E page \in Pages : SearchPage(page)
    \/ \E failure \in RemoteFailures : SearchPageFails(failure)
    \/ VideoStatsBatch
    \/ \E failure \in RemoteFailures : VideoStatsBatchFails(failure)
    \/ ChannelStatsBatch
    \/ \E failure \in RemoteFailures : ChannelStatsBatchFails(failure)

SpecPipeline == PipeInit /\ [][PipeNext]_vars

\* search_creators called, and search_videos never left waiting: the call is
\* made, and each search request the loop sends is answered or fails.
SearchStep ==
    \/ \E page \in Pages : SearchPage(page)
    \/ \E failure \in RemoteFailures : SearchPageFails(failure)

SpecSearchFair ==
    PipeInit /\ [][PipeNext]_vars /\ WF_vars(Start) /\ WF_vars(SearchStep)

(***************************************************************************)
(* Properties of search_creators and the gateway.                          *)
(***************************************************************************)
Executed(stage) == \E i \in 1..Len(stages) : stages[i].stage = stage

\* the last request was of kind op and the platform rejected it (an HttpError:
\* any other failure leaves search_creators as a TransportError)
Rejected(op) ==
    /\ last_request # <<>>
    /\ last_request[1].op = op
    /\ request_failed
    /\ raised # <<>> => raised[1].type = "SearchError"

\* the subscriber filter drops the channel: no stats entry, or out of range
FailsSubscriberFilter(channel_id) ==
    \/ channel_id \notin DOMAIN sc_channel_stats
    \/ sc_channel_stats[channel_id].subscriberCount < args.subscriber_range[1]
    \/ sc_channel_stats[channel_id].subscriberCount > args.subscriber_range[2]

\* the search returned three videos and their fetched view counts are 50, 500, 5000
ThreeVideosScenario ==
    /\ Executed("FilterByViews")
    /\ args.view_range = <<100, 1000>>
    /\ Len(sc_videos) = 3
    /\ DOMAIN sc_video_stats = Range(VideoIdsOf(sc_videos))
    /\ {sc_video_stats[v].viewCount : v \in DOMAIN sc_video_stats} = {50, 500, 5000}

\* C4: with view counts 50, 500, 5000 and view_range (100, 1000) exactly one video
\* passes the view filter, and if its channel fails the subscriber filter the
\* pipeline raises SearchError "No channels match subscriber criteria".
C4_ThreeVideos ==
    ThreeVideosScenario =>
        /\ Message("videos match view criteria", 1) \in Range(progress)
        /\ pc = "get_channel_statistics" =>
               /\ Len(sc_filtered_videos) = 1
               /\ sc_filtered_videos[1].views = 500
        /\ (Executed("FilterBySubscribers") /\ FailsSubscriberFilter(ChannelOf("v2"))) =>
               /\ pc = "raised"
               /\ raised = <<SearchError("No channels match subscriber criteria")>>
               /\ result = <<>>

C4_Witness ==
    /\ ThreeVideosScenario
    /\ Executed("FilterBySubscribers")
    /\ FailsSubscriberFilter(ChannelOf("v2"))
    /\ pc = "raised"

SearchYieldedNone ==
    /\ pc \notin {"start", "search_videos"}
    /\ sc_videos = <<>>
    /\ raised # <<>> => raised[1].type = "SearchError"

ViewFilterYieldedNone ==
    /\ Executed("FilterByViews")
    /\ ~Executed("FilterBySubscribers")
    /\ sc_filtered_videos = <<>>

SubscriberFilterLeftNone ==
    /\ Executed("FilterBySubscribers")
    /\ sc_filtered_videos = <<>>

\* the pipeline raised SearchError right after the stage `last`: nothing was
\* returned and no request followed the requests of kind `op`
RaisedAfter(last, reason, op) ==
    /\ pc = "raised"
    /\ raised = <<SearchError(reason)>>
    /\ result = <<>>
    /\ stages[Len(stages)].stage = last
    /\ ~Executed("Aggregate") /\ ~Executed("Merge")
    /\ last_request[1].op = op

\* C5: an empty search, an empty view filter or an empty subscriber filter raises
\* SearchError with its reason, runs no later stage and returns no channel map.
C5_FailFast ==
    /\ SearchYieldedNone => RaisedAfter("Search", "No videos found", "search")
    /\ ViewFilterYieldedNone =>
           RaisedAfter("FilterByViews", "No videos found with views in range", "videos")
    /\ SubscriberFilterLeftNone =>
           RaisedAfter("FilterBySubscribers", "No channels match subscriber criteria",
                       "channels")

C5_Witness ==
    /\ ViewFilterYieldedNone
    /\ pc = "raised"
    /\ Len(sc_videos) > 0

\* C6: when a search request is rejected after videos were collected from earlier
\* pages, search_videos returns the videos collected so far.
C6_PartialSearchResult ==
    (Rejected("search") /\ all_videos # <<>>) => sc_videos = all_videos

\* C7: when a batch request is rejected, the returned stats map lacks only the ids
\* of that batch.
C7_OnlyFailedBatchMissing ==
    /\ Rejected("videos") =>
           Range(VideoIdsOf(sc_videos)) \ Range(last_request[1].ids)
               \subseteq DOMAIN sc_video_stats
    /\ Rejected("channels") =>
           Range(sc_channel_ids) \ Range(last_request[1].ids)
               \subseteq DOMAIN sc_channel_stats

\* C8: the only exception that leaves search_creators is SearchError.
C8_OnlySearchError == raised # <<>> => raised[1].type = "SearchError"

\* search_creators ended as its contract allows: it returned, or raised SearchError
Ended ==
    \/ pc = "returned"
    \/ pc = "raised" /\ raised[1].type = "SearchError"

StageOrder == <<"Search", "FetchVideoStats", "FilterByViews", "FetchChannelStats",
                "FilterBySubscribers", "Aggregate", "Merge", "FilterByActivity">>

StageIndex(stage) == CHOOSE k \in 1..Len(StageOrder) : StageOrder[k] = stage

\* C14: every run of search_creators eventually ends, whatever the platform
\* answers; so the call of search_videos it starts with comes to an end.
C14_Terminates == (pc = "search_videos") ~> (pc # "search_videos")

\* C15: when search_creators has ended, every stage that ran was preceded by a
\* progress message and followed by one, and the stages ran in pipeline order
\* with their messages in that order.
C15_ProgressAroundStages ==
    Ended =>
        \A i \in 1..Len(stages) :
            /\ stages[i].after >= 1
            /\ stages[i].after < Len(progress)
            /\ i > 1 => /\ stages[i - 1].after <= stages[i].after
                        /\ StageIndex(stages[i - 1].stage) < StageIndex(stages[i].stage)

\* C24: search_videos never holds or returns more than max_total_results videos;
\* each search request asks for at least one and at most min(max_results,
\* max_total_results - collected) items under the token of the last response;
\* and once a response carried no token, or max_total_results videos are
\* collected, the call has ended and no search request follows.
C24_BoundedSearch ==
    [][/\ Len(all_videos') <= MAX_RESULTS_PER_KEYWORD
       /\ Len(sc_videos') <= MAX_RESULTS_PER_KEYWORD
       /\ pc = "search_videos" =>
              /\ Len(all_videos) < MAX_RESULTS_PER_KEYWORD
              /\ last_request # <<>> => next_page_token # <<>>
              /\ last_request'[1].op = "search"
              /\ last_request'[1].pageToken = next_page_token
              /\ last_request'[1].maxResults >= 1
              /\ last_request'[1].maxResults <= max_results
              /\ last_request'[1].maxResults <=
                     MAX_RESULTS_PER_KEYWORD - Len(all_videos)
       /\ pc # "search_videos" =>
              \/ last_request' = <<>>
              \/ last_request'[1].op # "search"]_vars

\* a search that filled up to max_total_results with a last request for less
\* than a full page
C24_Witness ==
    /\ pc = "get_video_statistics"
    /\ Len(sc_videos) = MAX_RESULTS_PER_KEYWORD
    /\ last_request[1].op = "search"
    /\ last_request[1].pageToken # <<>>
    /\ last_request[1].maxResults < max_results

\* C29: when search_creators returns, every channel of the result has fetched
\* stats and a subscriber count within subscriber_range, every video of the
\* result has a view count within view_range, and the result holds a channel
\* unless the activity filter ran.
C29_ResultWithinRanges ==
    pc = "returned" =>
        /\ \A i \in 1..Len(result[1]) :
               /\ result[1][i].channel_id \in DOMAIN sc_channel_stats
               /\ result[1][i].subscriber_count =
                      sc_channel_stats[result[1][i].channel_id].subscriberCount
               /\ args.subscriber_range[1] <= result[1][i].subscriber_count
               /\ result[1][i].subscriber_count <= args.subscriber_range[2]
               /\ \A k \in 1..Len(result[1][i].videos) :
                      /\ args.view_range[1] <= result[1][i].videos[k].views
                      /\ result[1][i].videos[k].views <= args.view_range[2]
        /\ args.activity_days = <<>> => Len(result[1]) >= 1

\* a run that returned after the view filter dropped a video whose stats were
\* not fetched and the subscriber filter dropped a channel whose stats were
C29_Witness ==
    /\ pc = "returned"
    /\ args.activity_days = <<>>
    /\ Len(result[1]) = 1
    /\ Range(VideoIdsOf(sc_videos)) \ DOMAIN sc_video_stats # {}
    /\ \E c \in DOMAIN sc_channel_stats :
           sc_channel_stats[c].subscriberCount > args.subscriber_range[2]

\* The channel map search_creators returns when list(set(...)) at pipeline.py
\* line 77 yields the channel ids in the given order, the platform answering
\* as it did in this run: the same search result, the same video statistics,
\* and the channel request of the same position failing, if one failed. The
\* result is <<>> when that run raises SearchError instead of returning.
ResultUnder(order) ==
    LET answered_ids ==
            IF last_request[1].op = "channels" /\ request_failed
            THEN SubSeq(order, 1, gw_batch_start - 1)
            ELSE order
        channel_stats == [c \in Range(answered_ids) |-> ChannelStats(c)]
        valid_channel_ids ==
            filter_channels_by_subscribers(order, channel_stats,
                args.subscriber_range[1], args.subscriber_range[2])
        filtered == filter_videos_by_views(sc_videos, sc_video_stats,
                                           args.view_range[1], args.view_range[2])
        kept == SelectSeq(filtered, LAMBDA v : v.channel_id \in Range(valid_channel_ids))
        merged == merge_channels(<<>>, aggregate_channels(kept, channel_stats, args.keyword))
    IN  IF kept = <<>> THEN <<>>
        ELSE IF args.activity_days = <<>> THEN <<merged>>
        ELSE <<filter_channels_by_activity(merged, args.activity_days[1],
                                           CHOOSE now \in NowDays : TRUE)>>

\* C13: a run of search_creators that returned a channel map returned the map
\* every run with the same arguments and the same answers of the platform
\* returns, whatever order list(set(...)) gives the channel ids.
C13_Deterministic ==
    pc = "returned" =>
        \A order \in Orderings(Range(sc_channel_ids)) : ResultUnder(order) = result

(***************************************************************************)
(* A session folding searches into one accumulated map, as the callers do  *)
(* (pipeline.py lines 91-92): aggregate the search, merge it in.           *)
(***************************************************************************)
AllChannelStats == [c \in ChannelIds |-> ChannelStats(c)]

SearchResults == SeqsUpTo(VideoIds, MaxVideos) \ {<<>>}

FoldInit ==
    /\ FoldIdle
    /\ args = [keyword |-> "", view_range |-> <<0, 0>>,
               subscriber_range |-> <<0, 0>>, activity_days |-> <<>>]
    /\ PipeIdle
    /\ MergeIdle
    /\ CallIdle

\* One search: its hits (already filtered) are aggregated and merged in.
FoldSearch(keyword, hits) ==
    /\ Len(searched) < MaxSearches
    /\ LET videos == [i \in 1..Len(hits) |-> FilteredVideo(hits[i])]
           keyword_channels == aggregate_channels(videos, AllChannelStats, keyword)
       IN  all_channels' = merge_channels(all_channels, keyword_channels)
    /\ searched' = Append(searched, keyword)
    /\ surfaced' = [v \in VideoIds |->
                       IF v \in Range(hits) THEN surfaced[v] \cup {keyword}
                       ELSE surfaced[v]]
    /\ UNCHANGED <<pipeVars, gatewayVars, mergeVars, callVars>>

FoldNext == \E keyword \in Keywords, hits \in SearchResults : FoldSearch(keyword, hits)

Spec == FoldInit /\ [][FoldNext]_vars

(***************************************************************************)
(* Properties of the accumulated map.                                      *)
(***************************************************************************)
Count(videos, url) == Cardinality({i \in 1..Len(videos) : videos[i].url = url})

KeywordsOf(videos, url) ==
    UNION {Range(videos[i].keywords) : i \in {j \in 1..Len(videos) : videos[j].url = url}}

\* C1: no channel record of the accumulated map lists a video url twice.
C1_NoDuplicateVideos ==
    \A i \in 1..Len(all_channels) : \A v \in VideoIds :
        Count(all_channels[i].videos, Url(v)) <= 1

\* C2: every record's derived metrics are those computed from its current videos.
C2_MetricsFresh ==
    \A i \in 1..Len(all_channels) : all_channels[i] = DeriveMetrics(all_channels[i])

\* C3: after a search for "a" then one for "b" that both returned video v, v is
\* listed once in its channel and carries exactly the keywords a and b.
C3_BothKeywords ==
    \A v \in VideoIds :
        (searched = <<"a", "b">> /\ surfaced[v] = {"a", "b"}) =>
            /\ ChannelOf(v) \in Keys(all_channels)
            /\ Count(Get(all_channels, ChannelOf(v)).videos, Url(v)) = 1
            /\ KeywordsOf(Get(all_channels, ChannelOf(v)).videos, Url(v)) = {"a", "b"}

\* C26: in the accumulated map the keywords a video carries are exactly the
\* keywords of the searches that returned it.
C26_KeywordProvenance ==
    \A v \in VideoIds :
        surfaced[v] # {} =>
            /\ ChannelOf(v) \in Keys(all_channels)
            /\ Url(v) \in Urls(Get(all_channels, ChannelOf(v)).videos)
            /\ KeywordsOf(Get(all_channels, ChannelOf(v)).videos, Url(v)) = surfaced[v]

\* the map `after` holds every channel and every video entry of `before`, each
\* entry with at least the keywords it had
Grown(before, after) ==
    /\ Keys(before) \subseteq Keys(after)
    /\ \A c \in Keys(before) :
           LET old == Get(before, c).videos
               new == Get(after, c).videos
           IN  /\ Len(old) <= Len(new)
               /\ \A i \in 1..Len(old) :
                      /\ new[i].url = old[i].url
                      /\ Range(old[i].keywords) \subseteq Range(new[i].keywords)

\* C23: every merge into the accumulated map keeps every channel id and every
\* video url it held, and leaves each video a keyword set that includes the
\* one it had.
C23_MonotoneGrowth == [][Grown(all_channels, all_channels')]_vars

\* two searches folded, the second of which gave a video a second keyword and
\* its channel a further video
C23_Witness ==
    /\ Len(searched) = 2
    /\ \E i \in 1..Len(all_channels) :
           /\ Len(all_channels[i].videos) >= 2
           /\ \E k \in 1..Len(all_channels[i].videos) :
                  Range(all_channels[i].videos[k].keywords) = {"a", "b"}

(***************************************************************************)
(* merge_channels applied to maps that aggregate_channels produced: a map  *)
(* merge_result into itself, and three maps merge_result in both groupings.            *)
(***************************************************************************)
OperandHits == SeqsUpTo(VideoIds, MaxOperandVideos)

OperandKeywords == <<{"a"}, {"b"}, {"a", "c"}>>

Operand(keyword, hits) ==
    aggregate_channels([i \in 1..Len(hits) |-> FilteredVideo(hits[i])],
                       AllChannelStats, keyword)

MergeInit ==
    /\ \E hits \in [1..3 -> OperandHits] :
           \E keyword \in [1..3 -> Keywords \cup {"c"}] :
               /\ \A i \in 1..3 : keyword[i] \in OperandKeywords[i]
               /\ operands = [i \in 1..3 |-> Operand(keyword[i], hits[i])]
    /\ merge_result = <<>>
    /\ FoldIdle
    /\ args = [keyword |-> "", view_range |-> <<0, 0>>,
               subscriber_range |-> <<0, 0>>, activity_days |-> <<>>]
    /\ PipeIdle
    /\ CallIdle

\* merge_channels(A, A)
MergeWithItself ==
    /\ merge_result = <<>>
    /\ merge_result' = <<"itself", merge_channels(operands[1], operands[1])>>
    /\ UNCHANGED <<operands, foldVars, pipeVars, gatewayVars, callVars>>

\* merge_channels(merge_channels(A, B), C) and merge_channels(A, merge_channels(B, C))
MergeBothGroupings ==
    /\ merge_result = <<>>
    /\ merge_result' = <<"groupings",
                   merge_channels(merge_channels(operands[1], operands[2]), operands[3]),
                   merge_channels(operands[1], merge_channels(operands[2], operands[3]))>>
    /\ UNCHANGED <<operands, foldVars, pipeVars, gatewayVars, callVars>>

MergeNext == MergeWithItself \/ MergeBothGroupings

SpecMerge == MergeInit /\ [][MergeNext]_vars

(***************************************************************************)
(* Properties of merge_channels.                                           *)
(***************************************************************************)
VideoUrls(channels, channel_id) ==
    LET videos == Get(channels, channel_id).videos
    IN  [i \in 1..Len(videos) |-> videos[i].url]

VideoKeywords(channels, channel_id) ==
    LET videos == Get(channels, channel_id).videos
    IN  [i \in 1..Len(videos) |-> videos[i].keywords]

\* The keyword sets carried by the entries of a channel that have the given url.
KeywordSets(channels, channel_id, url) ==
    LET videos == Get(channels, channel_id).videos
    IN  {Range(videos[i].keywords) : i \in {j \in 1..Len(videos) : videos[j].url = url}}

\* C9: merging a map into itself leaves the channel ids, each channel's video
\* list and each video's keyword list as they were.
C9_Idempotent ==
    (merge_result # <<>> /\ merge_result[1] = "itself") =>
        /\ Keys(merge_result[2]) = Keys(operands[1])
        /\ \A c \in Keys(operands[1]) :
               /\ VideoUrls(merge_result[2], c) = VideoUrls(operands[1], c)
               /\ VideoKeywords(merge_result[2], c) = VideoKeywords(operands[1], c)

\* C10: the two groupings of a three-way merge agree on the channel ids, on
\* each channel's set of video urls and on the keyword set of each video.
C10_Associative ==
    (merge_result # <<>> /\ merge_result[1] = "groupings") =>
        /\ Keys(merge_result[2]) = Keys(merge_result[3])
        /\ \A c \in Keys(merge_result[2]) :
               /\ Urls(Get(merge_result[2], c).videos) = Urls(Get(merge_result[3], c).videos)
               /\ \A url \in Urls(Get(merge_result[2], c).videos) :
                      KeywordSets(merge_result[2], c, url) = KeywordSets(merge_result[3], c, url)

\* Three maps that share a video under three different keywords, merge_result.
C10_Witness ==
    /\ merge_result # <<>> /\ merge_result[1] = "groupings"
    /\ \E c \in Keys(merge_result[2]) : \E url \in Urls(Get(merge_result[2], c).videos) :
           /\ \A i \in 1..3 : c \in Keys(operands[i])
                                /\ url \in Urls(Get(operands[i], c).videos)
           /\ KeywordSets(merge_result[2], c, url) = {{"a", "b", "c"}}
           /\ Len(Get(merge_result[2], c).videos) > 1

(***************************************************************************)
(* The pure functions of the package, each called once on arguments drawn  *)
(* from small sets.                                                        *)
(***************************************************************************)
\* search hits as search_videos returns them
HitLists == [hits \in SeqsUpTo(VideoIds, MaxCallVideos) |->
                [i \in 1..Len(hits) |-> SearchItem(hits[i])]]

\* stats maps holding an entry for some of the videos
VideoStatsMaps == {[v \in ids |-> VideoStatsEntry(v)] : ids \in SUBSET VideoIds}

ChannelStatsMaps == {[c \in ids |-> ChannelStats(c)] : ids \in SUBSET ChannelIds}

CallViewRanges == ViewRanges \cup {<<50, 500>>, <<501, 5000>>}

ViewFilterCalls ==
    {[fn |-> "filter_videos_by_views", videos |-> HitLists[hits], stats |-> stats,
      min_views |-> range[1], max_views |-> range[2]] :
        hits \in DOMAIN HitLists, stats \in VideoStatsMaps, range \in CallViewRanges}

AggregateCalls ==
    {[fn |-> "aggregate_channels",
      videos |-> [i \in 1..Len(hits) |-> FilteredVideo(hits[i])],
      channel_stats |-> stats, keyword |-> "a"] :
        hits \in SeqsUpTo(VideoIds, MaxCallVideos), stats \in ChannelStatsMaps}

Call_filter_videos_by_views ==
    /\ fn_call.fn = "filter_videos_by_views" /\ fn_result = <<>>
    /\ fn_result' = <<filter_videos_by_views(fn_call.videos, fn_call.stats,
                                             fn_call.min_views, fn_call.max_views)>>
    /\ UNCHANGED <<fn_call, fn_objects, foldVars, pipeVars, gatewayVars, mergeVars>>

Call_aggregate_channels ==
    /\ fn_call.fn = "aggregate_channels" /\ fn_result = <<>>
    /\ fn_result' = <<aggregate_channels(fn_call.videos, fn_call.channel_stats,
                                         fn_call.keyword)>>
    /\ UNCHANGED <<fn_call, fn_objects, foldVars, pipeVars, gatewayVars, mergeVars>>

\* the indices of the videos filter_videos_by_views has to keep
Passing(videos, stats, min_views, max_views) ==
    {i \in 1..Len(videos) :
        /\ videos[i].video_id \in DOMAIN stats
        /\ min_views <= stats[videos[i].video_id].viewCount
        /\ stats[videos[i].video_id].viewCount <= max_views}

\* s restricted to the indices in keep, in the order of s
RECURSIVE Restrict(_, _)
Restrict(s, keep) ==
    IF s = <<>> THEN <<>>
    ELSE Restrict(SubSeq(s, 1, Len(s) - 1), keep) \o
         (IF Len(s) \in keep THEN <<s[Len(s)]>> ELSE <<>>)

\* C11: filter_videos_by_views returns exactly the input videos, in input order,
\* that have a stats entry with min <= view_count <= max, each with its views.
C11_ViewFilterExact ==
    (fn_call.fn = "filter_videos_by_views" /\ fn_result # <<>>) =>
        LET kept == Restrict(fn_call.videos,
                             Passing(fn_call.videos, fn_call.stats,
                                     fn_call.min_views, fn_call.max_views))
            out == fn_result[1]
        IN  /\ Len(out) = Len(kept)
            /\ \A i \in 1..Len(out) :
                   /\ out[i].video_id = kept[i].video_id
                   /\ out[i].channel_id = kept[i].channel_id
                   /\ out[i].video_id \in DOMAIN fn_call.stats
                   /\ out[i].views = fn_call.stats[out[i].video_id].viewCount
                   /\ fn_call.min_views <= out[i].views
                   /\ out[i].views <= fn_call.max_views

\* a call that drops a video without stats, one out of range, and keeps one
C11_Witness ==
    /\ fn_call.fn = "filter_videos_by_views" /\ fn_result # <<>>
    /\ Len(fn_result[1]) = 1
    /\ \E i \in 1..Len(fn_call.videos) : fn_call.videos[i].video_id \notin DOMAIN fn_call.stats
    /\ \E i \in 1..Len(fn_call.videos) :
           /\ fn_call.videos[i].video_id \in DOMAIN fn_call.stats
           /\ fn_call.stats[fn_call.videos[i].video_id].viewCount > fn_call.max_views
    /\ fn_result[1][1].views = fn_call.max_views

\* C12: every channel of the map aggregate_channels returns has an entry in
\* channel_stats, and every input video of such a channel is in its record.
C12_AggregateWithinStats ==
    (fn_call.fn = "aggregate_channels" /\ fn_result # <<>>) =>
        /\ Keys(fn_result[1]) \subseteq DOMAIN fn_call.channel_stats
        /\ \A i \in 1..Len(fn_call.videos) :
               fn_call.videos[i].channel_id \in DOMAIN fn_call.channel_stats =>
                   /\ fn_call.videos[i].channel_id \in Keys(fn_result[1])
                   /\ Url(fn_call.videos[i].video_id) \in
                          Urls(Get(fn_result[1], fn_call.videos[i].channel_id).videos)

\* videos of a channel with stats and of one without, aggregated
C12_Witness ==
    /\ fn_call.fn = "aggregate_channels" /\ fn_result # <<>>
    /\ Len(fn_result[1]) = 1
    /\ \E i \in 1..Len(fn_call.videos) :
           fn_call.videos[i].channel_id \notin DOMAIN fn_call.channel_stats

(***************************************************************************)
(* calculate_channel_score on records holding the metrics it reads.        *)
(***************************************************************************)
ScoreIntervals == {<<>>, <<<<0, 1>>>>, <<<<7, 1>>>>, <<<<15, 2>>>>, <<<<14, 1>>>>,
                   <<<<61, 2>>>>, <<<<61, 1>>>>}

ScoreCalls ==
    {[fn |-> "calculate_channel_score",
      channel_data |-> [publish_interval_days |-> interval, median_views |-> views,
                        median_likes |-> likes, median_comments |-> comments,
                        subscriber_count |-> subscribers]] :
        interval \in ScoreIntervals, views \in {0, 1, 50, 5000}, likes \in {0, 2, 5000},
        comments \in {0, 1, 5000}, subscribers \in {0, 1, 500, 50000}}

Call_calculate_channel_score ==
    /\ fn_call.fn = "calculate_channel_score" /\ fn_result = <<>>
    /\ fn_result' = <<calculate_channel_score(fn_call.channel_data)>>
    /\ UNCHANGED <<fn_call, fn_objects, foldVars, pipeVars, gatewayVars, mergeVars>>

\* C16: calculate_channel_score returns an integer from 0 to 100.
C16_ScoreInRange ==
    (fn_call.fn = "calculate_channel_score" /\ fn_result # <<>>) =>
        fn_result[1] \in 0..100

\* a record whose likes and comments exceed the caps, scored at the top
C16_Witness ==
    /\ fn_call.fn = "calculate_channel_score" /\ fn_result # <<>>
    /\ fn_call.channel_data.median_likes > fn_call.channel_data.median_views
    /\ fn_call.channel_data.median_views > 0
    /\ fn_result[1] = 100

(***************************************************************************)
(* format_publish_interval on an absent interval and on intervals at and   *)
(* between its thresholds.                                                 *)
(***************************************************************************)
IntervalCalls ==
    {[fn |-> "format_publish_interval", days |-> days] :
        days \in {<<>>} \cup {<<Frac(n, 2)>> : n \in {0, 1, 2, 3, 4, 7, 8, 15, 16, 20, 29, 30,
                                                        43, 44, 89, 90, 149, 150, 200}}}

Call_format_publish_interval ==
    /\ fn_call.fn = "format_publish_interval" /\ fn_result = <<>>
    /\ fn_result' = <<format_publish_interval(fn_call.days)>>
    /\ UNCHANGED <<fn_call, fn_objects, foldVars, pipeVars, gatewayVars, mergeVars>>

\* C17: format_publish_interval gives the unknown label for no interval, the
\* multiple-per-day bucket for 0.5 days and the weekly bucket for 10 days.
C17_IntervalLabels ==
    (fn_call.fn = "format_publish_interval" /\ fn_result # <<>>) =>
        /\ fn_call.days = <<>> => fn_result[1] = "N/A"
        /\ fn_call.days = <<<<1, 2>>>> => fn_result[1] = "Multiple per day"
        /\ fn_call.days = <<<<10, 1>>>> => fn_result[1] = "Weekly"

(***************************************************************************)
(* calculate_median_views on lists of videos with their view counts.       *)
(***************************************************************************)
MedianCalls ==
    {[fn |-> "calculate_median_views",
      channel_data |-> [videos |-> [i \in 1..Len(views) |-> [views |-> views[i]]]]] :
        views \in SeqsUpTo({10, 20, 30}, MaxCallVideos)}

Call_calculate_median_views ==
    /\ fn_call.fn = "calculate_median_views" /\ fn_result = <<>>
    /\ fn_result' = <<calculate_median_views(fn_call.channel_data)>>
    /\ UNCHANGED <<fn_call, fn_objects, foldVars, pipeVars, gatewayVars, mergeVars>>

ViewsOf(channel_data) ==
    [i \in 1..Len(channel_data.videos) |-> channel_data.videos[i].views]

\* the k-th smallest member of the list xs, by counting
Smallest(xs, k) ==
    CHOOSE x \in Range(xs) :
        /\ Cardinality({i \in 1..Len(xs) : xs[i] < x}) < k
        /\ k <= Cardinality({i \in 1..Len(xs) : xs[i] <= x})

\* C18: calculate_median_views is 0 for no videos, the middle view count for an
\* odd number of videos, the floor of the mean of the two middle ones for an even
\* number, whatever the order of the videos.
C18_Median ==
    (fn_call.fn = "calculate_median_views" /\ fn_result # <<>>) =>
        LET xs == ViewsOf(fn_call.channel_data)
            n == Len(xs)
        IN  /\ n = 0 => fn_result[1] = 0
            /\ (n > 0 /\ n % 2 = 1) => fn_result[1] = Smallest(xs, (n + 1) \div 2)
            /\ (n > 0 /\ n % 2 = 0) =>
                   fn_result[1] = (Smallest(xs, n \div 2) + Smallest(xs, n \div 2 + 1)) \div 2
            /\ Range(xs) = {10, 20, 30} /\ n = 3 => fn_result[1] = 20
            /\ Range(xs) = {10, 20} /\ n = 2 => fn_result[1] = 15

\* three videos given out of order
C18_Witness ==
    /\ fn_call.fn = "calculate_median_views" /\ fn_result # <<>>
    /\ ViewsOf(fn_call.channel_data) = <<30, 10, 20>>
    /\ fn_result[1] = 20

(***************************************************************************)
(* sort_channels and filter_channels_by_activity on channel maps holding   *)
(* the fields the two functions read.                                      *)
(***************************************************************************)
ChannelProfiles ==
    {[median_views |-> views, subscriber_count |-> IF views = 50 THEN 50000 ELSE 500,
      last_published |-> published] :
        views \in {50, 500}, published \in {<<>>, <<10>>, <<30>>, <<40>>}}

\* channel maps of up to MaxCallChannels records, channel ids c1, c2, ...
ChannelMaps ==
    {[i \in 1..Len(profiles) |-> [channel_id |-> "c" \o ToString(i)] @@ profiles[i]] :
        profiles \in SeqsUpTo(ChannelProfiles, MaxCallChannels)}

SortCalls ==
    {[fn |-> "sort_channels", channels |-> channels, sort_by |-> sort_by,
      descending |-> descending] :
        channels \in {m \in ChannelMaps : \A i \in 1..Len(m) : m[i].last_published # <<30>>},
        sort_by \in {SortOption.RELEVANCE, SortOption.MEDIAN_VIEWS, SortOption.SUBSCRIBERS,
                     SortOption.ACTIVITY, "score"},
        descending \in BOOLEAN}

ActivityCalls ==
    {[fn |-> "filter_channels_by_activity", channels |-> channels,
      max_days_since_publish |-> days, now |-> now] :
        channels \in {m \in ChannelMaps : \A i \in 1..Len(m) : m[i].median_views = 50},
        days \in {20, 30}, now \in NowDays}

Call_sort_channels ==
    /\ fn_call.fn = "sort_channels" /\ fn_result = <<>>
    /\ fn_result' = <<sort_channels(fn_call.channels, fn_call.sort_by, fn_call.descending)>>
    /\ UNCHANGED <<fn_call, fn_objects, foldVars, pipeVars, gatewayVars, mergeVars>>

Call_filter_channels_by_activity ==
    /\ fn_call.fn = "filter_channels_by_activity" /\ fn_result = <<>>
    /\ fn_result' = <<filter_channels_by_activity(fn_call.channels,
                           fn_call.max_days_since_publish, fn_call.now)>>
    /\ UNCHANGED <<fn_call, fn_objects, foldVars, pipeVars, gatewayVars, mergeVars>>

\* where the record with the given channel id stands in the list
PositionOf(channels, channel_id) ==
    CHOOSE i \in 1..Len(channels) : channels[i].channel_id = channel_id

\* the sort key the claim names for the option: median views, subscribers, or
\* the last-published day, a record without one counting as earliest
KeyFor(sort_by, c) ==
    CASE sort_by = "median_views" -> <<1, c.median_views>>
      [] sort_by = "subscribers" -> <<1, c.subscriber_count>>
      [] sort_by = "activity" ->
            IF c.last_published = <<>> THEN <<0, 0>> ELSE <<1, c.last_published[1]>>

NotBelow(k1, k2) == k1[1] > k2[1] \/ (k1[1] = k2[1] /\ k1[2] >= k2[2])

\* C19: sort_channels with the default descending order returns the input
\* records; unchanged in order for relevance; otherwise in non-increasing key
\* order, undated records last under activity, equal keys in their prior order.
C19_StableSort ==
    (fn_call.fn = "sort_channels" /\ fn_result # <<>> /\ fn_call.descending) =>
        LET in == fn_call.channels
            out == fn_result[1]
            sort_by == fn_call.sort_by
        IN  /\ Len(out) = Len(in) /\ Range(out) = Range(in)
            /\ sort_by = "relevance" => out = in
            /\ sort_by \in {"median_views", "subscribers", "activity"} =>
                   \A i, j \in 1..Len(out) : i < j =>
                       /\ NotBelow(KeyFor(sort_by, out[i]), KeyFor(sort_by, out[j]))
                       /\ KeyFor(sort_by, out[i]) = KeyFor(sort_by, out[j]) =>
                              PositionOf(in, out[i].channel_id) < PositionOf(in, out[j].channel_id)
            /\ sort_by = "activity" =>
                   \A i, j \in 1..Len(out) : (i < j /\ out[i].last_published = <<>>) =>
                       out[j].last_published = <<>>

\* a sort by activity that moved records, with two equal keys and an undated record
C19_Witness ==
    /\ fn_call.fn = "sort_channels" /\ fn_result # <<>> /\ fn_call.descending
    /\ fn_call.sort_by = "activity"
    /\ fn_result[1] # fn_call.channels
    /\ Len(fn_result[1]) = 3
    /\ fn_result[1][1].last_published = fn_result[1][2].last_published
    /\ fn_result[1][3].last_published = <<>>

\* C20: filter_channels_by_activity returns exactly the records, unchanged and in
\* order, whose last_published is at or after now - max_days_since_publish; a
\* record without last_published is not returned.
C20_ActivityFilterExact ==
    (fn_call.fn = "filter_channels_by_activity" /\ fn_result # <<>>) =>
        LET in == fn_call.channels
            cutoff == fn_call.now - fn_call.max_days_since_publish
        IN  /\ fn_result[1] =
                   Restrict(in, {i \in 1..Len(in) :
                                    /\ in[i].last_published # <<>>
                                    /\ in[i].last_published[1] >= cutoff})
            /\ \A i \in 1..Len(fn_result[1]) : fn_result[1][i].last_published # <<>>

\* an undated record, one before the cutoff and one exactly at it
C20_Witness ==
    /\ fn_call.fn = "filter_channels_by_activity" /\ fn_result # <<>>
    /\ Len(fn_call.channels) = 3
    /\ \E i \in 1..3 : fn_call.channels[i].last_published = <<>>
    /\ \E i \in 1..3 : /\ fn_call.channels[i].last_published # <<>>
                        /\ fn_call.channels[i].last_published[1] <
                               fn_call.now - fn_call.max_days_since_publish
    /\ Len(fn_result[1]) = 1
    /\ fn_result[1][1].last_published[1] = fn_call.now - fn_call.max_days_since_publish

\* the input videos of an aggregate_channels call that belong to the channel
VideosOn(channel_id) ==
    SelectSeq(fn_call.videos, LAMBDA v : v.channel_id = channel_id)

\* C27: in the map aggregate_channels returns, a channel lists its input videos
\* in input order; the first of them carries [keyword] and every later one an
\* empty keyword list.
C27_KeywordOnFirstVideo ==
    (fn_call.fn = "aggregate_channels" /\ fn_result # <<>>) =>
        \A i \in 1..Len(fn_result[1]) :
            LET listed == fn_result[1][i].videos
                given == VideosOn(fn_result[1][i].channel_id)
            IN  /\ Len(listed) = Len(given)
                /\ \A k \in 1..Len(listed) :
                       /\ listed[k].url = Url(given[k].video_id)
                       /\ listed[k].views = given[k].views
                       /\ listed[k].keywords = IF k = 1 THEN <<fn_call.keyword>> ELSE <<>>

\* two channels aggregated, one of them with two different videos
C27_Witness ==
    /\ fn_call.fn = "aggregate_channels" /\ fn_result # <<>>
    /\ Len(fn_result[1]) = 2
    /\ \E i \in 1..2 :
           /\ Len(fn_result[1][i].videos) = 2
           /\ fn_result[1][i].videos[1].url # fn_result[1][i].videos[2].url
           /\ fn_result[1][i].videos[2].keywords = <<>>

(***************************************************************************)
(* The two channel filters on lists of channel ids, repeats included.      *)
(***************************************************************************)
ChannelIdLists == SeqsUpTo(ChannelIds, MaxCallChannels)

CallSubscriberRanges == SubscriberRanges \cup {<<500, 50000>>, <<501, 49999>>, <<0, 100>>}

CallVideoCountRanges == {<<12, 300>>, <<13, 299>>, <<1, 100>>, <<400, 500>>}

SubscriberFilterCalls ==
    {[fn |-> "filter_channels_by_subscribers", channel_ids |-> ids, stats |-> stats,
      min |-> range[1], max |-> range[2]] :
        ids \in ChannelIdLists, stats \in ChannelStatsMaps, range \in CallSubscriberRanges}

VideoCountFilterCalls ==
    {[fn |-> "filter_channels_by_video_count", channel_ids |-> ids, stats |-> stats,
      min |-> range[1], max |-> range[2]] :
        ids \in ChannelIdLists, stats \in ChannelStatsMaps, range \in CallVideoCountRanges}

Call_filter_channels_by_subscribers ==
    /\ fn_call.fn = "filter_channels_by_subscribers" /\ fn_result = <<>>
    /\ fn_result' = <<filter_channels_by_subscribers(fn_call.channel_ids, fn_call.stats,
                                                     fn_call.min, fn_call.max)>>
    /\ UNCHANGED <<fn_call, fn_objects, foldVars, pipeVars, gatewayVars, mergeVars>>

Call_filter_channels_by_video_count ==
    /\ fn_call.fn = "filter_channels_by_video_count" /\ fn_result = <<>>
    /\ fn_result' = <<filter_channels_by_video_count(fn_call.channel_ids, fn_call.stats,
                                                     fn_call.min, fn_call.max)>>
    /\ UNCHANGED <<fn_call, fn_objects, foldVars, pipeVars, gatewayVars, mergeVars>>

\* the count the called filter reads from a stats entry
FilteredCount(entry) ==
    IF fn_call.fn = "filter_channels_by_subscribers" THEN entry.subscriberCount
    ELSE entry.videoCount

\* the positions of the channel ids a channel filter has to keep
PassingChannels ==
    {i \in 1..Len(fn_call.channel_ids) :
        /\ fn_call.channel_ids[i] \in DOMAIN fn_call.stats
        /\ fn_call.min <= FilteredCount(fn_call.stats[fn_call.channel_ids[i]])
        /\ FilteredCount(fn_call.stats[fn_call.channel_ids[i]]) <= fn_call.max}

IsChannelFilterCall ==
    /\ fn_call.fn \in {"filter_channels_by_subscribers", "filter_channels_by_video_count"}
    /\ fn_result # <<>>

\* C21: filter_channels_by_subscribers and filter_channels_by_video_count return
\* exactly the input channel ids, in input order, that have a stats entry with
\* min <= count <= max; the call returns a list, an empty one too.
C21_ChannelFiltersExact ==
    IsChannelFilterCall => fn_result[1] = Restrict(fn_call.channel_ids, PassingChannels)

\* a subscriber filter call that keeps a channel at each end of the range, twice
\* the one listed twice, and drops nothing but ids without stats
C21_Witness ==
    /\ IsChannelFilterCall
    /\ fn_call.fn = "filter_channels_by_subscribers"
    /\ fn_call.channel_ids = <<"Y", "X", "Y">>
    /\ fn_call.min = 500 /\ fn_call.max = 50000
    /\ fn_result[1] = <<"Y", "X", "Y">>

\* a video count filter call that drops an id without stats and one out of range
\* and returns the empty list
C21_WitnessEmpty ==
    /\ IsChannelFilterCall
    /\ fn_call.fn = "filter_channels_by_video_count"
    /\ fn_call.channel_ids = <<"X", "Y">>
    /\ DOMAIN fn_call.stats = {"X"}
    /\ fn_result[1] = <<>>

(***************************************************************************)
(* merge_channels on two maps made by aggregate_channels: the accumulated  *)
(* map of an earlier search and the map of a later one, whose channel      *)
(* statistics may have moved on in between.                                *)
(***************************************************************************)
LaterChannelStats ==
    [c \in ChannelIds |->
        [subscriberCount |-> RemoteSubscribers(c) + 100,
         videoCount |-> RemoteVideoCount(c) + 1]]

MergeCalls ==
    {[fn |-> "merge_channels",
      existing_channels |-> Operand("a", hits),
      new_channels |->
          aggregate_channels([i \in 1..Len(new_hits) |-> FilteredVideo(new_hits[i])],
                             stats, keyword)] :
        hits \in OperandHits, new_hits \in SeqsUpTo(VideoIds, MaxCallVideos),
        keyword \in Keywords,
        stats \in {AllChannelStats, LaterChannelStats}}

\* The two arguments are maps of objects of their own: the accumulated map and
\* the map a fresh aggregate_channels call made (pipeline.py lines 91-92).
Call_merge_channels ==
    /\ fn_call.fn = "merge_channels" /\ fn_result = <<>>
    /\ fn_result' = <<merge_channels(fn_call.existing_channels, fn_call.new_channels)>>
    /\ LET existing == StoreChannels(fn_call.existing_channels, <<>>)
           incoming == StoreChannels(fn_call.new_channels, existing.heap)
           merged == merge_channel_objects(existing.refs, incoming.refs, incoming.heap)
       IN  fn_objects' = <<[existing_channels |-> existing.refs,
                            new_channels |-> incoming.refs,
                            merged |-> merged.refs,
                            heap |-> merged.heap]>>
    /\ UNCHANGED <<fn_call, foldVars, pipeVars, gatewayVars, mergeVars>>

IsMergeCall == fn_call.fn = "merge_channels" /\ fn_result # <<>>

\* the channels of a merge call held by both maps
InBoth == Keys(fn_call.existing_channels) \cap Keys(fn_call.new_channels)

\* a video entry without its keyword list
Untagged(video) == [f \in DOMAIN video \ {"keywords"} |-> video[f]]

\* C22: for a channel in both maps the merged video list is the existing list, in
\* its order, followed by every incoming video whose url the existing list does
\* not hold, in incoming order; a channel of the incoming map alone is inserted
\* with its record as it is.
C22_MergeAppends ==
    IsMergeCall =>
        /\ \A c \in InBoth :
               LET before == Get(fn_call.existing_channels, c).videos
                   incoming == Get(fn_call.new_channels, c).videos
                   after == Get(fn_result[1], c).videos
               IN  /\ Len(after) >= Len(before)
                   /\ \A i \in 1..Len(before) : Untagged(after[i]) = Untagged(before[i])
                   /\ SubSeq(after, Len(before) + 1, Len(after)) =
                          SelectSeq(incoming, LAMBDA v : v.url \notin Urls(before))
        /\ \A c \in Keys(fn_call.new_channels) \ Keys(fn_call.existing_channels) :
               /\ c \in Keys(fn_result[1])
               /\ Get(fn_result[1], c) = Get(fn_call.new_channels, c)

\* a merge that appends a video to a channel of both maps and inserts a channel
C22_Witness ==
    /\ IsMergeCall
    /\ \E c \in InBoth :
           /\ Len(Get(fn_result[1], c).videos) > Len(Get(fn_call.existing_channels, c).videos)
           /\ Urls(Get(fn_call.new_channels, c).videos) \cap
                  Urls(Get(fn_call.existing_channels, c).videos) # {}
    /\ Keys(fn_call.new_channels) \ Keys(fn_call.existing_channels) # {}

(***************************************************************************)
(* write_channels_to_jsonl on the channel maps search_creators returns:    *)
(* one search aggregated and merged into the empty map.                    *)
(***************************************************************************)
WriteCalls ==
    {[fn |-> "write_channels_to_jsonl",
      channels |-> merge_channels(<<>>, Operand(keyword, hits))] :
        hits \in SeqsUpTo(VideoIds, MaxCallVideos), keyword \in Keywords}

Call_write_channels_to_jsonl ==
    /\ fn_call.fn = "write_channels_to_jsonl" /\ fn_result = <<>>
    /\ fn_result' = <<write_channels_to_jsonl(fn_call.channels)>>
    /\ UNCHANGED <<fn_call, fn_objects, foldVars, pipeVars, gatewayVars, mergeVars>>

\* the fraction `rounded` is a number of tenths no further than 1/20 from `exact`
WithinHalfTenth(rounded, exact) ==
    LET gap == 20 * (rounded[1] * exact[2] - exact[1] * rounded[2])
    IN  /\ 10 % rounded[2] = 0
        /\ gap <= rounded[2] * exact[2]
        /\ 0 - gap <= rounded[2] * exact[2]

\* C25: write_channels_to_jsonl returns without an exception and has written one
\* line per channel, in map order, holding the channel's id and url, its
\* subscriber and video counts, its average views rounded to a tenth and its
\* video list, keywords included.
C25_OneLinePerChannel ==
    (fn_call.fn = "write_channels_to_jsonl" /\ fn_result # <<>>) =>
        /\ fn_result[1].raised = <<>>
        /\ Len(fn_result[1].lines) = Len(fn_call.channels)
        /\ \A i \in 1..Len(fn_result[1].lines) :
               LET line == fn_result[1].lines[i]
                   channel_data == fn_call.channels[i]
               IN  /\ line.channel_id = channel_data.channel_id
                   /\ line.channel_url = channel_data.channel_url
                   /\ line.subscriber_count = channel_data.subscriber_count
                   /\ line.total_videos = channel_data.total_videos
                   /\ WithinHalfTenth(line.average_views,
                                      calculate_average_views(channel_data))
                   /\ line.videos = channel_data.videos

\* the objects one can reach from a channel map: its records and their videos
Reachable(refs, heap) ==
    Range(refs) \cup UNION {Range(heap[refs[i]].videos) : i \in 1..Len(refs)}

\* the map merge_channels returns holds what the merged objects hold
MergeModelsAgree ==
    IsMergeCall => Load(fn_objects[1].merged, fn_objects[1].heap) = fn_result[1]

ExistingUntouched ==
    IsMergeCall =>
        Load(fn_objects[1].existing_channels, fn_objects[1].heap) = fn_call.existing_channels

IncomingUntouched ==
    IsMergeCall =>
        Load(fn_objects[1].new_channels, fn_objects[1].heap) = fn_call.new_channels

\* no record and no video of the merged map is an object of the incoming map,
\* so that no change made through the merged map shows in the incoming map
SharesNothingWithIncoming ==
    IsMergeCall =>
        Reachable(fn_objects[1].merged, fn_objects[1].heap) \cap
            Reachable(fn_objects[1].new_channels, fn_objects[1].heap) = {}

Unlisted(channel_data) == [f \in DOMAIN channel_data \ {"videos"} |-> channel_data[f]]

\* C28: for a channel in both maps every field of the merged record but the
\* video list (identity, statistics, derived metrics) has the value it has in
\* the existing record, whatever the incoming record holds.
C28_MergeKeepsFields ==
    IsMergeCall =>
        \A c \in InBoth :
            Unlisted(Get(fn_result[1], c)) = Unlisted(Get(fn_call.existing_channels, c))

\* a merge into a channel whose incoming record has other statistics and other
\* metrics, and brings a video the existing record lacks
C28_Witness ==
    /\ IsMergeCall
    /\ \E c \in InBoth :
           LET before == Get(fn_call.existing_channels, c)
               incoming == Get(fn_call.new_channels, c)
           IN  /\ incoming.subscriber_count # before.subscriber_count
               /\ incoming.total_videos # before.total_videos
               /\ incoming.median_views # before.median_views
               /\ incoming.channel_score # before.channel_score
               /\ Len(Get(fn_result[1], c).videos) > Len(before.videos)

FunctionCalls ==
    WriteCalls \cup MergeCalls \cup ViewFilterCalls \cup SubscriberFilterCalls \cup VideoCountFilterCalls \cup AggregateCalls \cup ScoreCalls \cup IntervalCalls \cup MedianCalls
        \cup SortCalls \cup ActivityCalls

CallInit ==
    /\ fn_call \in FunctionCalls
    /\ fn_result = <<>>
    /\ fn_objects = <<>>
    /\ FoldIdle
    /\ args = [keyword |-> "", view_range |-> <<0, 0>>,
               subscriber_range |-> <<0, 0>>, activity_days |-> <<>>]
    /\ PipeIdle
    /\ MergeIdle

CallNext ==
    \/ Call_filter_videos_by_views
    \/ Call_aggregate_channels
    \/ Call_calculate_channel_score
    \/ Call_format_publish_interval
    \/ Call_calculate_median_views
    \/ Call_sort_channels
    \/ Call_filter_channels_by_activity
    \/ Call_filter_channels_by_subscribers
    \/ Call_filter_channels_by_video_count
    \/ Call_merge_channels
    \/ Call_write_channels_to_jsonl

SpecFunctions == CallInit /\ [][CallNext]_vars

====
